---- MODULE Spec2Model ----
(***************************************************************************)
(* A model of the erniebot-agent orchestration engine:                     *)
(*   Agent.run / run_llm / run_tool        (agents/agent.py)               *)
(*   FunctionAgent._run and its helpers    (agents/function_agent.py)      *)
(*   FunctionAgent.__init__                (agents/function_agent.py)      *)
(*   Agent.add_file_reprs_to_text          (agents/agent.py)               *)
(*   AgentResponse._get_annotations        (agents/schema.py)              *)
(*   Agent.load_tool / Agent.unload_tool   (agents/agent.py)               *)
(*                                                                         *)
(* Five specifications: Spec, the runs of a constructed agent; SpecLive,   *)
(* the same runs when every await completes; SpecTools, the runs with      *)
(* load_tool and unload_tool; SpecNew, the constructor applied to its      *)
(* arguments; SpecText, the two text functions applied to theirs.          *)
(*                                                                         *)
(* The program is asyncio code: one event loop, and a coroutine gives up   *)
(* control only at an await.  Every action below is therefore the          *)
(* completion of one await (a callback dispatch, the model call, the tool  *)
(* call) followed by all the synchronous code that runs up to the next     *)
(* await.  Several tasks may call run on the same agent.                   *)
(***************************************************************************)
EXTENDS Integers, Sequences, FiniteSets, TLC

VARIABLES
    is_running,     \* Agent._is_running
    memory,         \* Agent.memory: the persisted messages, in order
    tool_manager,   \* Agent._tool_manager: the names of the registered tools
    max_num_iters,  \* FunctionAgent.max_num_iters
    first_tools,    \* FunctionAgent._first_tools: tool names, in order
    task,           \* per calling task: position in run and the locals of the run
    construction,   \* the call of FunctionAgent(...): its arguments and outcome
    call            \* a call of one of the text functions: arguments and result

vars == <<is_running, memory, tool_manager, max_num_iters, first_tools, task,
          construction, call>>

-----------------------------------------------------------------------------
(* Bounds of the model *)

\* max_num_iters is drawn from 1..MaxIters
MaxIters == 2
\* a run is started only while fewer than 2*MaxCommits messages are persisted
MaxCommits == 2
\* the first_tools argument of the constructor lists at most MaxFirstTools tools
MaxFirstTools == 2
\* a text handed to a text function has at most MaxTextLen atoms
MaxTextLen == 4
\* add_file_reprs_to_text is given at most MaxFiles files
MaxFiles == 2
\* a response whose annotations are computed has at most MaxSteps steps
MaxSteps == 2

\* the tasks that call run on the one agent instance
Callers == {"t1", "t2"}

-----------------------------------------------------------------------------
(* Data: messages, tool arguments, tool results *)

Last(s) == s[Len(s)]

NoCall == [name |-> "", arguments |-> <<>>]

HumanMessage(content) ==
    [role |-> "Human", content |-> content, function_call |-> NoCall,
     plugin_info |-> "", clarify |-> FALSE, name |-> ""]

AIMessage(content, function_call, plugin_info, clarify) ==
    [role |-> "AI", content |-> content, function_call |-> function_call,
     plugin_info |-> plugin_info, clarify |-> clarify, name |-> ""]

FunctionMessage(name, content) ==
    [role |-> "Function", content |-> content, function_call |-> NoCall,
     plugin_info |-> "", clarify |-> FALSE, name |-> name]

\* Argument texts, as token sequences: "n" a number, "k" a key with its colon,
\* "f" a string that is the id of a file.
ArgObject == <<"{", "k", "n", "}">>
ArgFile   == <<"{", "k", "f", "}">>
ArgArray  == <<"[", "n", "]">>
ArgScalar == <<"n">>
ArgBroken == <<"{", "k">>
ArgTexts  == {ArgObject, ArgFile, ArgArray, ArgScalar, ArgBroken}

Tok(text, i) == IF i >= 1 /\ i <= Len(text) THEN text[i] ELSE "<eof>"

ParseFail == [ok |-> FALSE, next |-> 0, kind |-> "error"]

\* json.loads: a recursive-descent parse of one JSON value starting at token i
RECURSIVE ParseValue(_, _)
ParseValue(text, i) ==
    CASE Tok(text, i) \in {"n", "f"} -> [ok |-> TRUE, next |-> i + 1, kind |-> "scalar"]
      [] Tok(text, i) = "[" ->
            IF Tok(text, i + 1) = "]"
            THEN [ok |-> TRUE, next |-> i + 2, kind |-> "array"]
            ELSE LET v == ParseValue(text, i + 1) IN
                 IF v.ok /\ Tok(text, v.next) = "]"
                 THEN [ok |-> TRUE, next |-> v.next + 1, kind |-> "array"]
                 ELSE ParseFail
      [] Tok(text, i) = "{" ->
            IF Tok(text, i + 1) = "}"
            THEN [ok |-> TRUE, next |-> i + 2, kind |-> "object"]
            ELSE IF Tok(text, i + 1) # "k" THEN ParseFail
            ELSE LET v == ParseValue(text, i + 2) IN
                 IF v.ok /\ Tok(text, v.next) = "}"
                 THEN [ok |-> TRUE, next |-> v.next + 1, kind |-> "object"]
                 ELSE ParseFail
      [] OTHER -> ParseFail

json_loads(text) ==
    LET v == ParseValue(text, 1) IN
    IF v.ok /\ v.next = Len(text) + 1 THEN v ELSE ParseFail

NotADictLax(args_dict) == FALSE

\* the isinstance test of Agent._parse_tool_args (line 318)
NotADict(args_dict) == args_dict.kind # "object"

\* Agent._parse_tool_args: the exception it raises, or "" when it returns a dict
parse_tool_args(tool_args) ==
    LET args_dict == json_loads(tool_args) IN
    IF ~args_dict.ok THEN "ValueError: cannot be parsed as JSON"
    ELSE IF NotADict(args_dict) THEN "ValueError: cannot be interpreted as a dict"
    ELSE ""

\* The tools of the model and what a successful invocation returns.
ToolNames == {"add", "plot"}

\* add returns the number 3, plot the dict {"img": "file-1"}
ToolReturn(tool) ==
    IF tool = "add" THEN [kind |-> "scalar", key |-> "", num |-> 3, str |-> ""]
    ELSE [kind |-> "object", key |-> "img", num |-> 0, str |-> "file-1"]

\* json.dumps of a tool's result (line 299)
json_dumps(tool_ret) ==
    IF tool_ret.kind = "scalar" THEN ToString(tool_ret.num)
    ELSE "{\"" \o tool_ret.key \o "\": \"" \o tool_ret.str \o "\"}"

\* the file ids the file manager knows
FileIds == {"file-0", "file-1"}

\* FileManager.sniff_and_extract_files_from_obj on the parsed arguments: the
\* file named by the "f" token is file-0
sniff_and_extract_files_from_args(tool_args) ==
    IF \E i \in 1..Len(tool_args) : tool_args[i] = "f" THEN <<"file-0">> ELSE <<>>

\* FileManager.sniff_and_extract_files_from_obj on a dict returned by a tool
sniff_and_extract_files_from_obj(tool_ret) ==
    IF tool_ret.str \in FileIds THEN <<tool_ret.str>> ELSE <<>>

\* lines 293-300 of Agent._run_tool: the ToolResponse built from the parsed
\* arguments and the tool's result
ToolResponse(tool_args, tool_ret) ==
    [json |-> json_dumps(tool_ret),
     input_files |-> sniff_and_extract_files_from_args(tool_args),
     output_files |-> IF tool_ret.kind = "object"
                      THEN sniff_and_extract_files_from_obj(tool_ret) ELSE <<>>]

NoToolResponse == [json |-> "", input_files |-> <<>>, output_files |-> <<>>]

ToolStepFilesSwapped(tool_name, tool_args, tool_resp) ==
    [type |-> "ToolStep", tool_name |-> tool_name, tool_args |-> tool_args,
     result |-> tool_resp.json, input_files |-> tool_resp.output_files,
     output_files |-> tool_resp.input_files]

ToolStep(tool_name, tool_args, tool_resp) ==
    [type |-> "ToolStep", tool_name |-> tool_name, tool_args |-> tool_args,
     result |-> tool_resp.json, input_files |-> tool_resp.input_files,
     output_files |-> tool_resp.output_files]

PluginStep(info, result, input_files) ==
    [type |-> "PluginStep", info |-> info, result |-> result,
     input_files |-> input_files, output_files |-> <<>>]

AgentRunEnd(response, end_reason) ==
    [type |-> "AgentRunEnd", response |-> response, end_reason |-> end_reason]

StoppedText == "The agent run was stopped because the maximum number of iterations was reached."

AgentResponse(text, chat_history, steps, end_reason) ==
    [text |-> text, chat_history |-> chat_history, steps |-> steps,
     end_reason |-> end_reason]

NoResponse == AgentResponse("", <<>>, <<>>, "")

-----------------------------------------------------------------------------
(* What the collaborators may do *)

Prompts == {"hi"}

\* The messages the chat model may answer with.
Replies ==
    { AIMessage("ans", NoCall, "", FALSE),
      AIMessage("ans", NoCall, "", TRUE),
      AIMessage("ans", NoCall, "eChart", FALSE),
      AIMessage("ans", NoCall, "eChart", TRUE),
      AIMessage("", [name |-> "add", arguments |-> ArgObject], "", FALSE),
      AIMessage("ans", [name |-> "plot", arguments |-> ArgFile], "eChart", TRUE),
      AIMessage("", [name |-> "nosuch", arguments |-> ArgObject], "eChart", FALSE),
      AIMessage("", [name |-> "add", arguments |-> ArgArray], "", TRUE),
      AIMessage("", [name |-> "add", arguments |-> ArgScalar], "", FALSE),
      AIMessage("", [name |-> "add", arguments |-> ArgBroken], "", FALSE) }

NoMessage == AIMessage("", NoCall, "", FALSE)

-----------------------------------------------------------------------------
(* The state of one calling task *)

IdleTask ==
    [pc |-> "idle",
     prompt |-> "",
     chat_history |-> <<>>,
     steps |-> <<>>,
     curr_iter |-> 0,
     selected_tool |-> 0,        \* index into first_tools; 0: no tool is selected
     input_messages |-> <<>>,
     output_message |-> NoMessage,
     tool |-> "",
     tool_resp |-> NoToolResponse,
     error |-> "",               \* the exception in flight
     agent_resp |-> NoResponse,
     outcome |-> "",             \* "returned" or "raised", once run has ended
     events |-> <<>>,            \* callbacks dispatched and collaborators invoked
     chat_calls |-> <<>>,        \* the arguments of each llm.chat call
     memory_before |-> <<>>,     \* the memory as it was when run was called
     called_during_run |-> FALSE] \* whether run was called under a run in flight

\* no text function is being applied
NoApplication ==
    [op |-> "", pc |-> "", text |-> <<>>, files |-> <<>>, steps |-> <<>>,
     result |-> <<>>]

\* A task's locals together with the agent's fields its code reads and writes.
Ctx(c) == [t |-> task[c], is_running |-> is_running, memory |-> memory]

Commit(c, x) ==
    /\ task' = [task EXCEPT ![c] = x.t]
    /\ is_running' = x.is_running
    /\ memory' = x.memory

\* One entry of a task's event log: a callback dispatched or a collaborator
\* invoked, the exception in flight at that moment, and whether it raised.
Emit(x, name, raised) ==
    [x EXCEPT !.t.events = Append(@, [name |-> name, error |-> x.t.error,
                                      raised |-> raised])]

-----------------------------------------------------------------------------
(* Collaborators that are not part of the sources at hand *)

\* Memory.get_messages / Memory.add_message (WholeMemory keeps every message)
get_messages(mem) == mem

add_message(mem, message) == Append(mem, message)

\* ToolManager.get_tool: whether the lookup by name succeeds
HasTool(tool_name) == tool_name \in tool_manager

\* FileManager.sniff_and_extract_files_from_text: the files named in a text
sniff_and_extract_files_from_text(text) ==
    IF text = json_dumps(ToolReturn("plot")) THEN <<"file-1">> ELSE <<>>

CallbackError == "CallbackError"

-----------------------------------------------------------------------------
(* FunctionAgent: the synchronous code between two awaits, as functions of  *)
(* the context x = [t: the task's locals, is_running, memory]              *)

\* the finally clause of run (line 144)
run_finally(x) == [x EXCEPT !.is_running = FALSE]

RunEndsReleasing(x, outcome, e) ==
    run_finally([x EXCEPT !.t.pc = "done", !.t.outcome = outcome, !.t.error = e])

\* run returns to its caller, or raises e to it
RunEnds(x, outcome, e) ==
    [x EXCEPT !.t.pc = "done", !.t.outcome = outcome, !.t.error = e]

RunRaisesUnreported(x, e) == run_finally(RunEnds(x, "raised", e))

\* An exception leaves _run: Agent.run catches it and dispatches on_run_error.
RunRaises(x, e) == [x EXCEPT !.t.pc = "on_run_error", !.t.error = e]

\* _run got its response: Agent.run dispatches on_run_end.
RunReturns(x, response) == [x EXCEPT !.t.pc = "on_run_end", !.t.agent_resp = response]

ShouldCommit(end_reason) == end_reason # "STOPPED"

HistoryComplete(chat_history) ==
    /\ Len(chat_history) >= 2
    /\ chat_history[1].role = "Human"
    /\ Last(chat_history).role = "AI"

CommittedFirstTwo(chat_history) == <<chat_history[1], chat_history[2]>>

\* the messages _finalize_run persists
Committed(chat_history) == <<chat_history[1], Last(chat_history)>>

finalize_run_eager(x, end_info) ==
    LET chat_history == x.t.chat_history
        response == AgentResponse(end_info.response, chat_history, x.t.steps,
                                  end_info.end_reason)
    IN  IF chat_history = <<>>
        THEN RunRaises(x, "ValueError: chat_history should not be empty.")
        ELSE LET y == [x EXCEPT !.memory = add_message(@, chat_history[1])] IN
             IF ShouldCommit(response.end_reason)
             THEN IF ~HistoryComplete(chat_history)
                  THEN RunRaises(x, "ValueError: The chat history is incomplete or invalid.")
                  ELSE RunReturns([y EXCEPT !.memory = add_message(@, Last(chat_history))],
                                  response)
             ELSE RunReturns(y, response)

\* FunctionAgent._finalize_run
finalize_run(x, end_info) ==
    LET chat_history == x.t.chat_history
        response == AgentResponse(end_info.response, chat_history, x.t.steps,
                                  end_info.end_reason)
    IN  IF chat_history = <<>>
        THEN RunRaises(x, "ValueError: chat_history should not be empty.")
        ELSE IF ShouldCommit(response.end_reason)
        THEN IF ~HistoryComplete(chat_history)
             THEN RunRaises(x, "ValueError: The chat history is incomplete or invalid.")
             ELSE LET kept == Committed(chat_history) IN
                  RunReturns([x EXCEPT !.memory =
                                 add_message(add_message(@, kept[1]), kept[2])],
                             response)
        ELSE RunReturns(x, response)

BudgetExhaustedAtTwice(curr_iter) == curr_iter >= 2 * max_num_iters

BudgetExhaustedEarly(curr_iter) == curr_iter + 1 >= max_num_iters

BudgetExhaustedLate(curr_iter) == curr_iter > max_num_iters

\* the test that ends the run with STOPPED (line 178)
BudgetExhausted(curr_iter) == curr_iter >= max_num_iters

ForcedCallWorkedLax(new_steps) == Len(new_steps) >= 1

\* whether _run keeps the outcome of a forced first-tool call
ForcedCallWorked(new_steps) == Len(new_steps) = 1 /\ new_steps[1].type = "ToolStep"

run_llm_unannounced(x) == [x EXCEPT !.t.pc = "llm.chat"]

\* Agent.run_llm up to its first await (line 167)
run_llm(x) == [x EXCEPT !.t.pc = "on_llm_start"]

RECURSIVE take_next_steps(_, _), handle_new_steps(_, _, _), record_steps(_, _, _), next_pass(_, _)

take_next_steps_history_first(x, curr_iter) ==
    LET chat_history == x.t.chat_history IN
    IF chat_history = <<>>
    THEN RunRaises(x, "ValueError: chat_history should not be empty.")
    ELSE IF Last(chat_history).role = "AI"
    THEN RunRaises(x, "ValueError: The last element in chat_history should not be an AIMessage object.")
    ELSE IF BudgetExhausted(curr_iter)
    THEN handle_new_steps(x, <<AgentRunEnd(StoppedText, "STOPPED")>>, <<>>)
    ELSE run_llm([x EXCEPT !.t.input_messages =
                               chat_history \o get_messages(x.memory)])

\* _take_next_steps up to its first await (lines 173-196)
take_next_steps(x, curr_iter) ==
    LET chat_history == x.t.chat_history IN
    IF chat_history = <<>>
    THEN RunRaises(x, "ValueError: chat_history should not be empty.")
    ELSE IF Last(chat_history).role = "AI"
    THEN RunRaises(x, "ValueError: The last element in chat_history should not be an AIMessage object.")
    ELSE IF BudgetExhausted(curr_iter)
    THEN handle_new_steps(x, <<AgentRunEnd(StoppedText, "STOPPED")>>, <<>>)
    ELSE run_llm([x EXCEPT !.t.input_messages =
                               get_messages(x.memory) \o chat_history])

\* _run from the head of the first-tools loop at tool i, then into the main loop
next_pass(x, i) ==
    IF i <= Len(first_tools)
    THEN take_next_steps([x EXCEPT !.t.selected_tool = i], -1)
    ELSE take_next_steps([x EXCEPT !.t.selected_tool = 0, !.t.curr_iter = 0], 0)

record_steps_leaping(x, new_steps, k) ==
    IF k > Len(new_steps)
    THEN take_next_steps([x EXCEPT !.t.curr_iter = @ + 2], x.t.curr_iter + 2)
    ELSE IF new_steps[k].type = "AgentRunEnd"
    THEN finalize_run(x, new_steps[k])
    ELSE record_steps([x EXCEPT !.t.steps = Append(@, new_steps[k])], new_steps, k + 1)

record_steps_keeping_end(x, new_steps, k) ==
    IF k > Len(new_steps)
    THEN take_next_steps([x EXCEPT !.t.curr_iter = @ + 1], x.t.curr_iter + 1)
    ELSE IF new_steps[k].type = "AgentRunEnd"
    THEN finalize_run([x EXCEPT !.t.steps = Append(@, new_steps[k])], new_steps[k])
    ELSE record_steps([x EXCEPT !.t.steps = Append(@, new_steps[k])], new_steps, k + 1)

record_steps_past_end(x, new_steps, k) ==
    IF k > Len(new_steps)
    THEN take_next_steps([x EXCEPT !.t.curr_iter = @ + 1], x.t.curr_iter + 1)
    ELSE IF new_steps[k].type = "AgentRunEnd"
    THEN record_steps(x, new_steps, k + 1)
    ELSE record_steps([x EXCEPT !.t.steps = Append(@, new_steps[k])], new_steps, k + 1)

\* the loop over new_steps in _run (lines 141-149), from its k-th element
record_steps(x, new_steps, k) ==
    IF k > Len(new_steps)
    THEN take_next_steps([x EXCEPT !.t.curr_iter = @ + 1], x.t.curr_iter + 1)
    ELSE IF new_steps[k].type = "AgentRunEnd"
    THEN finalize_run(x, new_steps[k])
    ELSE record_steps([x EXCEPT !.t.steps = Append(@, new_steps[k])], new_steps, k + 1)

handle_new_steps_dropping(x, new_steps, new_messages) ==
    IF x.t.selected_tool > 0
    THEN next_pass(IF ForcedCallWorked(new_steps)
                   THEN [x EXCEPT !.t.chat_history = @ \o new_messages]
                   ELSE x,
                   x.t.selected_tool + 1)
    ELSE record_steps([x EXCEPT !.t.chat_history = @ \o new_messages], new_steps, 1)

\* _run receiving what _take_next_steps returned (lines 130-135 and 140-149)
handle_new_steps(x, new_steps, new_messages) ==
    IF x.t.selected_tool > 0
    THEN next_pass(IF ForcedCallWorked(new_steps)
                   THEN [x EXCEPT !.t.chat_history = @ \o new_messages,
                                  !.t.steps = Append(@, new_steps[1])]
                   ELSE x,
                   x.t.selected_tool + 1)
    ELSE record_steps([x EXCEPT !.t.chat_history = @ \o new_messages], new_steps, 1)

initialize_run_empty(x) ==
    [x EXCEPT !.t.chat_history = <<>>, !.t.steps = <<>>]

\* _initialize_run
initialize_run(x) ==
    [x EXCEPT !.t.chat_history = <<HumanMessage(x.t.prompt)>>, !.t.steps = <<>>]

run_tool_unannounced(x, tool_name) ==
    IF HasTool(tool_name)
    THEN [x EXCEPT !.t.tool = tool_name, !.t.pc = "tool"]
    ELSE RunRaises(x, "RuntimeError: unknown tool")

\* Agent.run_tool up to its first await (lines 193-194)
run_tool(x, tool_name) ==
    IF HasTool(tool_name)
    THEN [x EXCEPT !.t.tool = tool_name, !.t.pc = "on_tool_start"]
    ELSE RunRaises(x, "RuntimeError: unknown tool")

after_run_llm_plugin_first(x) ==
    LET output_message == x.t.output_message
        new_messages == <<output_message>>
    IN  IF output_message.plugin_info # ""
        THEN handle_new_steps(x,
                <<PluginStep(output_message.plugin_info, output_message.content,
                             sniff_and_extract_files_from_text(
                                 Last(x.t.input_messages).content)),
                  AgentRunEnd(output_message.content, "FINISHED")>>,
                new_messages)
        ELSE IF output_message.function_call # NoCall
        THEN run_tool(x, output_message.function_call.name)
        ELSE IF output_message.clarify
        THEN handle_new_steps(x, <<AgentRunEnd(output_message.content, "CLARIFY")>>,
                              new_messages)
        ELSE handle_new_steps(x, <<AgentRunEnd(output_message.content, "FINISHED")>>,
                              new_messages)

\* _take_next_steps once run_llm has returned (lines 198-234)
after_run_llm(x) ==
    LET output_message == x.t.output_message
        new_messages == <<output_message>>
    IN  IF output_message.function_call # NoCall
        THEN run_tool(x, output_message.function_call.name)
        ELSE IF output_message.plugin_info # ""
        THEN handle_new_steps(x,
                <<PluginStep(output_message.plugin_info, output_message.content,
                             sniff_and_extract_files_from_text(
                                 Last(x.t.input_messages).content)),
                  AgentRunEnd(output_message.content, "FINISHED")>>,
                new_messages)
        ELSE IF output_message.clarify
        THEN handle_new_steps(x, <<AgentRunEnd(output_message.content, "CLARIFY")>>,
                              new_messages)
        ELSE handle_new_steps(x, <<AgentRunEnd(output_message.content, "FINISHED")>>,
                              new_messages)

after_run_tool_persisting(x) ==
    LET output_message == x.t.output_message
        tool_name == output_message.function_call.name
        tool_args == output_message.function_call.arguments
        tool_resp == x.t.tool_resp
    IN  handle_new_steps(
            [x EXCEPT !.memory = add_message(@, FunctionMessage(tool_name, tool_resp.json))],
            <<ToolStep(tool_name, tool_args, tool_resp)>>,
            <<output_message, FunctionMessage(tool_name, tool_resp.json)>>)

\* _take_next_steps once run_tool has returned (lines 206-214)
after_run_tool(x) ==
    LET output_message == x.t.output_message
        tool_name == output_message.function_call.name
        tool_args == output_message.function_call.arguments
        tool_resp == x.t.tool_resp
    IN  handle_new_steps(x,
            <<ToolStep(tool_name, tool_args, tool_resp)>>,
            <<output_message, FunctionMessage(tool_name, tool_resp.json)>>)

-----------------------------------------------------------------------------
(* Agent.run *)

ReentrancyError == "RuntimeError: The agent is already running."

ReentrantNever == FALSE

\* the guard of run (line 132)
Reentrant == is_running

\* a task is inside run: it passed the guard and run has not returned or raised
InRun(c) == task[c].pc \notin {"idle", "done"}

\* run is called: the guard, and the flag set, up to the await of on_run_start.
\* The model starts a run only while the memory is below its bound and once the
\* logs of earlier runs were collected (a log is an observation of a finished
\* run, not state of the agent).
Run(c) ==
    /\ task[c].pc \in {"idle", "done"}
    /\ \E prompt \in Prompts :
         LET x == [Ctx(c) EXCEPT !.t = [IdleTask EXCEPT
                      !.called_during_run = \E d \in Callers : InRun(d)]]
         IN  IF Reentrant
             THEN Commit(c, RunEnds(x, "raised", ReentrancyError))
             ELSE /\ Len(memory) < 2 * MaxCommits
                  /\ \A d \in Callers \ {c} : task[d].events = <<>>
                  /\ Commit(c, [x EXCEPT !.is_running = TRUE,
                                         !.t.prompt = prompt,
                                         !.t.memory_before = memory,
                                         !.t.pc = "on_run_start"])
    /\ UNCHANGED <<tool_manager, max_num_iters, first_tools, construction, call>>

\* on_run_start completes; it is awaited before the try statement
OnRunStart(c) ==
    /\ task[c].pc = "on_run_start"
    /\ \E raises \in BOOLEAN :
         LET x == Emit(Ctx(c), "on_run_start", raises) IN
         Commit(c, IF raises THEN RunEnds(x, "raised", CallbackError)
                   ELSE next_pass(initialize_run(x), 1))
    /\ UNCHANGED <<tool_manager, max_num_iters, first_tools, construction, call>>

\* on_run_error completes (except clause), then finally
OnRunError(c) ==
    /\ task[c].pc = "on_run_error"
    /\ \E raises \in BOOLEAN :
         LET x == Emit(Ctx(c), "on_run_error", raises) IN
         Commit(c, run_finally(RunEnds(x, "raised",
                                       IF raises THEN CallbackError ELSE x.t.error)))
    /\ UNCHANGED <<tool_manager, max_num_iters, first_tools, construction, call>>

\* on_run_end completes (else clause), then finally
OnRunEnd(c) ==
    /\ task[c].pc = "on_run_end"
    /\ \E raises \in BOOLEAN :
         LET x == Emit(Ctx(c), "on_run_end", raises) IN
         Commit(c, run_finally(IF raises THEN RunEnds(x, "raised", CallbackError)
                               ELSE RunEnds(x, "returned", "")))
    /\ UNCHANGED <<tool_manager, max_num_iters, first_tools, construction, call>>

\* The calling task drops the outcome of its last call.
Collect(c) ==
    /\ task[c].pc = "done"
    /\ task' = [task EXCEPT ![c] = IdleTask]
    /\ UNCHANGED <<is_running, memory, tool_manager, max_num_iters, first_tools,
                 construction, call>>

-----------------------------------------------------------------------------
(* Agent.run_llm *)

ChatCallAllFunctions(x) ==
    [messages |-> x.t.input_messages,
     functions |-> tool_manager,
     tool_choice |-> IF x.t.selected_tool > 0
                     THEN first_tools[x.t.selected_tool] ELSE ""]

\* the functions and tool_choice that reach llm.chat (lines 189-196, 269-273)
ChatCall(x) ==
    [messages |-> x.t.input_messages,
     functions |-> IF x.t.selected_tool > 0
                   THEN {first_tools[x.t.selected_tool]} ELSE tool_manager,
     tool_choice |-> IF x.t.selected_tool > 0
                     THEN first_tools[x.t.selected_tool] ELSE ""]

\* on_llm_start completes; it is awaited before the try statement
OnLLMStart(c) ==
    /\ task[c].pc = "on_llm_start"
    /\ \E raises \in BOOLEAN :
         LET x == Emit(Ctx(c), "on_llm_start", raises) IN
         Commit(c, IF raises THEN RunRaises(x, CallbackError)
                   ELSE [x EXCEPT !.t.pc = "llm.chat"])
    /\ UNCHANGED <<tool_manager, max_num_iters, first_tools, construction, call>>

\* llm.chat completes: it returns a message or raises
LLMChat(c) ==
    /\ task[c].pc = "llm.chat"
    /\ LET x == [Ctx(c) EXCEPT !.t.chat_calls = Append(@, ChatCall(Ctx(c)))] IN
       \/ \E reply \in Replies :
            Commit(c, Emit([x EXCEPT !.t.output_message = reply,
                                     !.t.pc = "on_llm_end"], "llm.chat", FALSE))
       \/ Commit(c, Emit([x EXCEPT !.t.error = "ModelError",
                                   !.t.pc = "on_llm_error"], "llm.chat", TRUE))
    /\ UNCHANGED <<tool_manager, max_num_iters, first_tools, construction, call>>

\* on_llm_error completes (except clause); the exception leaves run_llm
OnLLMError(c) ==
    /\ task[c].pc = "on_llm_error"
    /\ \E raises \in BOOLEAN :
         LET x == Emit(Ctx(c), "on_llm_error", raises) IN
         Commit(c, RunRaises(x, IF raises THEN CallbackError ELSE x.t.error))
    /\ UNCHANGED <<tool_manager, max_num_iters, first_tools, construction, call>>

\* on_llm_end completes (else clause); run_llm returns into _take_next_steps
OnLLMEnd(c) ==
    /\ task[c].pc = "on_llm_end"
    /\ \E raises \in BOOLEAN :
         LET x == Emit(Ctx(c), "on_llm_end", raises) IN
         Commit(c, IF raises THEN RunRaises(x, CallbackError) ELSE after_run_llm(x))
    /\ UNCHANGED <<tool_manager, max_num_iters, first_tools, construction, call>>

-----------------------------------------------------------------------------
(* Agent.run_tool *)

\* _run_tool up to its first await: the arguments are parsed (line 288)
run_tool_body_unreported(x) ==
    LET e == parse_tool_args(x.t.output_message.function_call.arguments) IN
    IF e # "" THEN RunRaises(x, e)
    ELSE [x EXCEPT !.t.pc = "tool"]

run_tool_body(x) ==
    LET e == parse_tool_args(x.t.output_message.function_call.arguments) IN
    IF e # "" THEN [x EXCEPT !.t.error = e, !.t.pc = "on_tool_error"]
    ELSE [x EXCEPT !.t.pc = "tool"]

\* on_tool_start completes; it is awaited before the try statement
OnToolStart(c) ==
    /\ task[c].pc = "on_tool_start"
    /\ \E raises \in BOOLEAN :
         LET x == Emit(Ctx(c), "on_tool_start", raises) IN
         Commit(c, IF raises THEN RunRaises(x, CallbackError) ELSE run_tool_body(x))
    /\ UNCHANGED <<tool_manager, max_num_iters, first_tools, construction, call>>

\* the tool invocation completes (line 294): it returns its result or raises
ToolCall(c) ==
    /\ task[c].pc = "tool"
    /\ LET x == Ctx(c) IN
       \/ Commit(c, Emit([x EXCEPT !.t.tool_resp =
                               ToolResponse(x.t.output_message.function_call.arguments,
                                            ToolReturn(x.t.tool)),
                                   !.t.pc = "on_tool_end"], "tool", FALSE))
       \/ Commit(c, Emit([x EXCEPT !.t.error = "ToolError",
                                   !.t.pc = "on_tool_error"], "tool", TRUE))
    /\ UNCHANGED <<tool_manager, max_num_iters, first_tools, construction, call>>

\* on_tool_error completes (except clause); the exception leaves run_tool
OnToolError(c) ==
    /\ task[c].pc = "on_tool_error"
    /\ \E raises \in BOOLEAN :
         LET x == Emit(Ctx(c), "on_tool_error", raises) IN
         Commit(c, RunRaises(x, IF raises THEN CallbackError ELSE x.t.error))
    /\ UNCHANGED <<tool_manager, max_num_iters, first_tools, construction, call>>

\* on_tool_end completes (else clause); run_tool returns into _take_next_steps
OnToolEnd(c) ==
    /\ task[c].pc = "on_tool_end"
    /\ \E raises \in BOOLEAN :
         LET x == Emit(Ctx(c), "on_tool_end", raises) IN
         Commit(c, IF raises THEN RunRaises(x, CallbackError) ELSE after_run_tool(x))
    /\ UNCHANGED <<tool_manager, max_num_iters, first_tools, construction, call>>

-----------------------------------------------------------------------------
(* Agent.reset_memory *)

\* Callers serialize their own accesses to the memory with the runs: the
\* history is cleared between runs, not under a run in progress.
ResetMemory ==
    /\ \A c \in Callers : task[c].pc = "idle"
    /\ memory' = <<>>
    /\ UNCHANGED <<is_running, tool_manager, max_num_iters, first_tools, task,
                 construction, call>>

-----------------------------------------------------------------------------
(* FunctionAgent.__init__ *)

NoError == [type |-> "", message |-> ""]

\* the tools a caller may hand to the constructor, registered or not
ToolUniverse == ToolNames \cup {"nosuch"}

\* the calls of the constructor: tools, max_num_iters, first_tools
Constructions ==
    [pc : {"called"},
     tools : SUBSET ToolUniverse,
     max_num_iters : -1..MaxIters,
     first_tools : UNION {[1..n -> ToolUniverse] : n \in 0..MaxFirstTools},
     error : {NoError}]

\* the call that yields an agent with the given fields
Constructed(tools, iters, first) ==
    [pc |-> "returned", tools |-> tools, max_num_iters |-> iters,
     first_tools |-> first, error |-> NoError]

MissingFirstToolAtHead(first, tools) == first # <<>> /\ first[1] \notin tools

\* the loop of lines 118-120: some tool of first_tools is not in get_tools()
MissingFirstTool(first, tools) == \E i \in 1..Len(first) : first[i] \notin tools

\* the constructor runs: Agent.__init__ sets the tool manager, the memory and
\* the flag, then lines 113-123 validate max_num_iters and first_tools
New ==
    /\ construction.pc = "called"
    /\ tool_manager' = construction.tools
    /\ memory' = <<>>
    /\ is_running' = FALSE
    /\ IF construction.max_num_iters <= 0
       THEN /\ construction' = [construction EXCEPT !.pc = "raised",
                   !.error = [type |-> "ValueError",
                              message |-> "Invalid max_num_iters value"]]
            /\ UNCHANGED <<max_num_iters, first_tools>>
       ELSE /\ max_num_iters' = construction.max_num_iters
            /\ IF MissingFirstTool(construction.first_tools, tool_manager')
               THEN /\ construction' = [construction EXCEPT !.pc = "raised",
                           !.error = [type |-> "ValueError",
                                      message |-> "The tool in first_tools must be in the tools list."]]
                    /\ UNCHANGED first_tools
               ELSE /\ construction' = [construction EXCEPT !.pc = "returned"]
                    /\ first_tools' = construction.first_tools
    /\ UNCHANGED <<task, call>>

\* Before the constructor has run there is no agent: the fields hold nothing.
InitNew ==
    /\ construction \in Constructions
    /\ is_running = FALSE
    /\ memory = <<>>
    /\ tool_manager = {}
    /\ max_num_iters = 0
    /\ first_tools = <<>>
    /\ task = [c \in Callers |-> IdleTask]
    /\ call = NoApplication

NextNew == New

SpecNew == InitNew /\ [][NextNew]_vars

-----------------------------------------------------------------------------
(* The text functions: Agent.add_file_reprs_to_text and                     *)
(* AgentResponse._get_annotations                                           *)
(*                                                                          *)
(* A text is a sequence of atoms: a character, or a file id in its lexical  *)
(* form.  A file id is recognizable: no run of characters reads as one, so   *)
(* every match of an id in a text starts and ends at an atom boundary, and   *)
(* positions in a text are counted in atoms, from 1.                         *)

Chars == {"a"}

Atoms == Chars \cup FileIds

Texts == UNION {[1..n -> Atoms] : n \in 0..MaxTextLen}

SeqsUpTo(S, n) == UNION {[1..k -> S] : k \in 0..n}

\* protocol.extract_file_ids: the ids in a text, one per occurrence, in order
extract_file_ids(text) == SelectSeq(text, LAMBDA atom : atom \in FileIds)

\* FileManager.create_file_reprs: the textual representation of each file
create_file_reprs(files) ==
    [i \in 1..Len(files) |-> <<"<file>", files[i], "</file>">>]

\* "\n".join(file_reprs)
RECURSIVE JoinLines(_)
JoinLines(strs) ==
    IF strs = <<>> THEN <<>>
    ELSE IF Len(strs) = 1 THEN strs[1]
    ELSE strs[1] \o <<"\n">> \o JoinLines(Tail(strs))

add_file_reprs_to_text_always(text, files) ==
    IF Len(files) > 0
    THEN text \o <<"\n">> \o JoinLines(create_file_reprs(files))
    ELSE text

\* Agent.add_file_reprs_to_text
add_file_reprs_to_text(text, files) ==
    IF Len(files) > 0
    THEN IF Len(extract_file_ids(text)) > 0
         THEN text
         ELSE text \o <<"\n">> \o JoinLines(create_file_reprs(files))
    ELSE text

\* str.index: the position of the first occurrence of a file id in a text
index(text, file_id) ==
    CHOOSE i \in 1..Len(text) :
        text[i] = file_id /\ \A j \in 1..(i - 1) : text[j] # file_id

\* lines 146-152: one place per extracted id; the sorted list is dropped
Places(text, file_ids) ==
    [k \in 1..Len(file_ids) |-> [start |-> index(text, file_ids[k]), len |-> 1]]

\* text[lo:hi] with lo, hi positions from 1 and hi excluded; empty if lo >= hi
Slice(text, lo, hi) == SubSeq(text, lo, hi - 1)

\* lines 154-162: the loop over places from the k-th one, with prev_idx
RECURSIVE SplitText(_, _, _, _)
SplitText(text, places, k, prev_idx) ==
    IF k > Len(places)
    THEN <<Slice(text, prev_idx, Len(text) + 1)>>
    ELSE LET file_start_index == places[k].start
             file_len == places[k].len
         IN  <<Slice(text, prev_idx, file_start_index),
               Slice(text, file_start_index, file_start_index + file_len)>>
             \o SplitText(text, places, k + 1, file_start_index + file_len)

\* AgentStepWithFiles.files
StepFiles(step) == step.input_files \o step.output_files

\* the files of all steps, in the order the loops of lines 169-171 visit them
RECURSIVE AllFiles(_)
AllFiles(steps) ==
    IF steps = <<>> THEN <<>> ELSE StepFiles(steps[1]) \o AllFiles(Tail(steps))

\* File.to_dict: the metadata of a file, as a content part
to_dict(file) == [kind |-> "file", text |-> <<>>, file_id |-> file]

TextPart(segment) == [kind |-> "text", text |-> segment, file_id |-> ""]

\* whether a segment of the split text equals one of the extracted ids
IsFileId(segment, file_ids) ==
    \E k \in 1..Len(file_ids) : segment = <<file_ids[k]>>

\* lines 167-176: the content parts of one segment
PartsOf(segment, file_ids, steps) ==
    IF IsFileId(segment, file_ids)
    THEN LET matching == SelectSeq(AllFiles(steps), LAMBDA file : segment = <<file>>)
         IN  [i \in 1..Len(matching) |-> to_dict(matching[i])]
    ELSE <<TextPart(segment)>>

RECURSIVE ContentParts(_, _, _)
ContentParts(segments, file_ids, steps) ==
    IF segments = <<>> THEN <<>>
    ELSE PartsOf(segments[1], file_ids, steps)
         \o ContentParts(Tail(segments), file_ids, steps)

\* AgentResponse._get_annotations: the content_parts of a response
get_annotations(text, steps) ==
    LET file_ids == extract_file_ids(text)
        places == Places(text, file_ids)
        split_text_list == SplitText(text, places, 1, 1)
    IN  ContentParts(split_text_list, file_ids, steps)

\* the steps a response may hold: tool calls with and without files
StepsWithFiles ==
    {ToolStep("plot", ArgObject, [json |-> "{}", input_files |-> i, output_files |-> o]) :
        i \in {<<>>, <<"file-0">>}, o \in {<<>>, <<"file-0">>, <<"file-1">>}}

\* the calls of the text functions
Applications ==
    [op : {"add_file_reprs_to_text"}, pc : {"called"}, text : Texts,
     files : SeqsUpTo(FileIds, MaxFiles), steps : {<<>>}, result : {<<>>}]
    \cup
    [op : {"annotations"}, pc : {"called"}, text : Texts,
     files : {<<>>}, steps : SeqsUpTo(StepsWithFiles, MaxSteps), result : {<<>>}]

\* add_file_reprs_to_text is applied
AddFileReprsToText ==
    /\ call.op = "add_file_reprs_to_text"
    /\ call.pc = "called"
    /\ call' = [call EXCEPT !.pc = "returned",
                            !.result = add_file_reprs_to_text(call.text, call.files)]
    /\ UNCHANGED <<is_running, memory, tool_manager, max_num_iters, first_tools, task,
                   construction>>

\* the annotations of a response are computed
Annotations ==
    /\ call.op = "annotations"
    /\ call.pc = "called"
    /\ call' = [call EXCEPT !.pc = "returned",
                            !.result = get_annotations(call.text, call.steps)]
    /\ UNCHANGED <<is_running, memory, tool_manager, max_num_iters, first_tools, task,
                   construction>>

\* The text functions read no field of the agent that a run writes: they are
\* applied to their arguments on an agent at rest.
InitText ==
    /\ call \in Applications
    /\ is_running = FALSE
    /\ memory = <<>>
    /\ tool_manager = ToolNames
    /\ max_num_iters = 1
    /\ first_tools = <<>>
    /\ task = [c \in Callers |-> IdleTask]
    /\ construction = Constructed(tool_manager, max_num_iters, first_tools)

NextText == AddFileReprsToText \/ Annotations

SpecText == InitText /\ [][NextText]_vars

-----------------------------------------------------------------------------
(* The specification *)

\* The agents constructed: no first tool or one, with max_num_iters up to the
\* bound, and two first tools in a fixed order, with a single iteration.
FirstToolsChoices == {<<>>, <<"add">>}

Init ==
    /\ is_running = FALSE
    /\ memory = <<>>
    /\ tool_manager = ToolNames
    /\ \/ max_num_iters \in 1..MaxIters /\ first_tools \in FirstToolsChoices
       \/ max_num_iters = 1 /\ first_tools = <<"add", "plot">>
    /\ task = [c \in Callers |-> IdleTask]
    /\ construction = Constructed(tool_manager, max_num_iters, first_tools)
    /\ call = NoApplication

Next ==
    \/ \E c \in Callers : Run(c)
    \/ \E c \in Callers : OnRunStart(c)
    \/ \E c \in Callers : OnLLMStart(c)
    \/ \E c \in Callers : LLMChat(c)
    \/ \E c \in Callers : OnLLMError(c)
    \/ \E c \in Callers : OnLLMEnd(c)
    \/ \E c \in Callers : OnToolStart(c)
    \/ \E c \in Callers : ToolCall(c)
    \/ \E c \in Callers : OnToolError(c)
    \/ \E c \in Callers : OnToolEnd(c)
    \/ \E c \in Callers : OnRunError(c)
    \/ \E c \in Callers : OnRunEnd(c)
    \/ \E c \in Callers : Collect(c)
    \/ ResetMemory

Spec == Init /\ [][Next]_vars

\* an await of task c completes: the callback, the model or the tool it
\* waits for returns or raises
Await(c) ==
    \/ OnRunStart(c)
    \/ OnLLMStart(c)
    \/ LLMChat(c)
    \/ OnLLMError(c)
    \/ OnLLMEnd(c)
    \/ OnToolStart(c)
    \/ ToolCall(c)
    \/ OnToolError(c)
    \/ OnToolEnd(c)
    \/ OnRunError(c)
    \/ OnRunEnd(c)

\* The runs of an agent whose collaborators answer: every model call, tool
\* call and callback that a run awaits returns or raises in the end.
SpecLive == Init /\ [][Next]_vars /\ \A c \in Callers : WF_vars(Await(c))

-----------------------------------------------------------------------------
(* Agent.load_tool and Agent.unload_tool *)

\* ToolManager.add_tool / ToolManager.remove_tool
add_tool(tools, tool) == tools \cup {tool}

remove_tool(tools, tool) == tools \ {tool}

\* load_tool(tool): a tool that is already registered is refused by the
\* registry and nothing changes
LoadTool(tool) ==
    /\ ~HasTool(tool)
    /\ tool_manager' = add_tool(tool_manager, tool)
    /\ UNCHANGED <<is_running, memory, max_num_iters, first_tools, task,
                 construction, call>>

\* unload_tool(tool), by name or by object: the lookup of a name that is not
\* registered raises and nothing changes
UnloadTool(tool) ==
    /\ HasTool(tool)
    /\ tool_manager' = remove_tool(tool_manager, tool)
    /\ UNCHANGED <<is_running, memory, max_num_iters, first_tools, task,
                 construction, call>>

\* an agent constructed with the tools add and plot and the first tool add
InitTools ==
    /\ is_running = FALSE
    /\ memory = <<>>
    /\ tool_manager = ToolNames
    /\ max_num_iters = 1
    /\ first_tools = <<"add">>
    /\ task = [c \in Callers |-> IdleTask]
    /\ construction = Constructed(tool_manager, max_num_iters, first_tools)
    /\ call = NoApplication

\* the operations of the agent, load_tool and unload_tool among them; these
\* two are synchronous and may be called between any two steps of a run
NextTools ==
    \/ Next
    \/ \E tool \in ToolNames : LoadTool(tool)
    \/ \E tool \in ToolNames : UnloadTool(tool)

SpecTools == InitTools /\ [][NextTools]_vars

-----------------------------------------------------------------------------
(* Properties *)

\* C1: at most one run is in flight on the agent at any time, and a call to
\* run made while a run is in flight (suspended at any await) is rejected at
\* once with the re-entrancy error: it never enters the run and is not queued.
C1_SingleFlight ==
    /\ Cardinality({c \in Callers : InRun(c)}) <= 1
    /\ \A c \in Callers :
         task[c].called_during_run =>
            /\ task[c].pc = "done"
            /\ task[c].outcome = "raised"
            /\ task[c].error = ReentrancyError
            /\ task[c].events = <<>>

\* a task is suspended in a tool call while the other task's call was rejected
C1_Witness ==
    \E c, d \in Callers :
        /\ task[c].pc = "tool"
        /\ task[d].called_during_run
        /\ task[d].error = ReentrancyError

\* C2: the running flag is released on every exit path of run, the callbacks'
\* exceptions included: whenever no run is in progress the flag is false.
C2_FlagReleased == (\A c \in Callers : ~InRun(c)) => ~is_running

RunTerminal == {"on_run_error", "on_run_end"}

TerminalCount(evs) == Cardinality({i \in 1..Len(evs) : evs[i].name \in RunTerminal})

Finalized(t) == t.pc \in {"on_run_end", "done"} /\ t.agent_resp # NoResponse

\* C4: a run that completes with FINISHED or CLARIFY has a chat history of at
\* least two messages, the first a Human and the last an AI message, and the
\* memory after it is the memory before it followed by exactly those two.
C4_CommitsFirstAndLast ==
    \A c \in Callers :
        LET t == task[c]
            h == t.agent_resp.chat_history
        IN  (Finalized(t) /\ t.agent_resp.end_reason \in {"FINISHED", "CLARIFY"}) =>
               /\ Len(h) >= 2
               /\ h[1].role = "Human"
               /\ Last(h).role = "AI"
               /\ memory = t.memory_before \o <<h[1], Last(h)>>

\* a run with a tool call in it has returned FINISHED: four messages of history
C4_Witness ==
    \E c \in Callers :
        /\ task[c].pc = "done"
        /\ task[c].outcome = "returned"
        /\ task[c].agent_resp.end_reason = "FINISHED"
        /\ Len(task[c].agent_resp.chat_history) = 4

\* C5: a run that completes with STOPPED leaves the memory as it was when the
\* run was called, and its response text is the fixed message; the iteration
\* index then equals max_num_iters.
C5_StoppedLeavesMemory ==
    \A c \in Callers :
        LET t == task[c] IN
        (Finalized(t) /\ t.agent_resp.end_reason = "STOPPED") =>
           /\ memory = t.memory_before
           /\ t.agent_resp.text = StoppedText
           /\ t.curr_iter = max_num_iters

\* a run over a non-empty memory has returned STOPPED
C5_Witness ==
    \E c \in Callers :
        /\ task[c].pc = "done"
        /\ task[c].outcome = "returned"
        /\ task[c].agent_resp.end_reason = "STOPPED"
        /\ task[c].memory_before # <<>>

\* the model calls of the main iteration: those without a pinned tool
MainCalls(t) ==
    Cardinality({i \in 1..Len(t.chat_calls) : t.chat_calls[i].tool_choice = ""})

\* C6: a run makes at most max_num_iters model calls in the main iteration,
\* and the pass that yields STOPPED calls neither the model nor a tool: it
\* comes right after the tool call of the pass before, with max_num_iters
\* main-iteration model calls made.
C6_StoppedWithoutModelCall ==
    \A c \in Callers :
        LET t == task[c] IN
        /\ MainCalls(t) <= max_num_iters
        /\ (Finalized(t) /\ t.agent_resp.end_reason = "STOPPED") =>
              /\ MainCalls(t) = max_num_iters
              /\ t.pc = "on_run_end" => Last(t.events).name = "on_tool_end"

\* a run with max_num_iters = 2 was stopped after two main-iteration model calls
C6_Witness ==
    \E c \in Callers :
        /\ max_num_iters = 2
        /\ task[c].pc = "on_run_end"
        /\ task[c].agent_resp.end_reason = "STOPPED"
        /\ MainCalls(task[c]) = 2

\* C7: the memory equals its value at the call of run at every point of the
\* run before a successful finalization, and after a run that ended otherwise
\* than through on_run_end (a failure of the model, of a tool, of the tool
\* lookup, of the argument parsing).
C7_MemoryOnlyAtFinalization ==
    \A c \in Callers :
        LET t == task[c] IN
        /\ (InRun(c) /\ t.pc # "on_run_end") => memory = t.memory_before
        /\ (t.pc = "done" /\ t.events # <<>> /\ Last(t.events).name # "on_run_end") =>
              memory = t.memory_before

\* a run over a non-empty memory failed in a tool after an earlier tool call
C7_Witness ==
    \E c \in Callers :
        /\ task[c].pc = "done"
        /\ task[c].error = "ToolError"
        /\ Len(task[c].steps) >= 1
        /\ task[c].memory_before # <<>>

\* the argument texts that are not a JSON object
Malformed == {ArgArray, ArgScalar, ArgBroken}

ArgumentErrors ==
    {"ValueError: cannot be parsed as JSON",
     "ValueError: cannot be interpreted as a dict"}

\* the index of the last llm.chat entry of an event log (0 if none)
LastChat(evs) ==
    LET S == {i \in 1..Len(evs) : evs[i].name = "llm.chat"} IN
    IF S = {} THEN 0 ELSE CHOOSE i \in S : \A j \in S : j <= i

\* C8: when the arguments of a tool call are malformed (not JSON, or a JSON
\* array or scalar) the tool is never invoked and no ToolResponse is produced:
\* run_tool goes from on_tool_start to on_tool_error with an argument error.
C8_MalformedArgsRejected ==
    \A c \in Callers :
        LET t == task[c]
            evs == t.events
            k == LastChat(evs)
        IN  (k > 0 /\ ~evs[k].raised
                   /\ t.output_message.function_call.arguments \in Malformed) =>
               /\ t.pc \notin {"tool", "on_tool_end"}
               /\ \A i \in (k + 1)..Len(evs) :
                    /\ evs[i].name \notin {"tool", "on_tool_end"}
                    /\ (evs[i].name = "on_tool_start" /\ ~evs[i].raised) =>
                          IF i = Len(evs)
                          THEN t.pc = "on_tool_error" /\ t.error \in ArgumentErrors
                          ELSE /\ evs[i + 1].name = "on_tool_error"
                               /\ evs[i + 1].error \in ArgumentErrors

\* run_tool is about to dispatch on_tool_error for arguments that are an array
C8_Witness ==
    \E c \in Callers :
        /\ task[c].pc = "on_tool_error"
        /\ task[c].output_message.function_call.arguments = ArgArray
        /\ task[c].error = "ValueError: cannot be interpreted as a dict"

ToolFailures == ArgumentErrors \cup {"RuntimeError: unknown tool", "ToolError"}

\* C9: every failure of run_tool (unknown tool name, malformed arguments, a
\* failing tool) reaches the caller of run_tool only after on_tool_error was
\* dispatched with that failure.
C9_ToolErrorAlwaysEmitted ==
    \A c \in Callers :
        LET t == task[c] IN
        (t.pc = "on_run_error" /\ t.error \in ToolFailures) =>
           /\ Last(t.events).name = "on_tool_error"
           /\ Last(t.events).error = t.error

\* C10: the model is invoked only right after on_llm_start has returned; an
\* invocation is followed by exactly one callback, on_llm_error if it raised
\* and on_llm_end if it returned, and these two are dispatched nowhere else;
\* after on_llm_error returns, the model's exception is the one that leaves
\* run_llm.
C10_ModelEventOrder ==
    \A c \in Callers :
        LET t == task[c]
            evs == t.events
        IN  /\ Len(t.chat_calls) =
                  Cardinality({i \in 1..Len(evs) : evs[i].name = "llm.chat"})
            /\ \A i \in 1..Len(evs) :
                 /\ evs[i].name = "on_llm_start" /\ ~evs[i].raised =>
                      IF i = Len(evs) THEN t.pc = "llm.chat"
                      ELSE evs[i + 1].name = "llm.chat"
                 /\ evs[i].name = "llm.chat" =>
                      /\ i > 1 /\ evs[i - 1].name = "on_llm_start" /\ ~evs[i - 1].raised
                      /\ LET after == IF evs[i].raised THEN "on_llm_error" ELSE "on_llm_end"
                         IN  IF i = Len(evs) THEN t.pc = after
                             ELSE evs[i + 1].name = after
                 /\ evs[i].name \in {"on_llm_error", "on_llm_end"} =>
                      i > 1 /\ evs[i - 1].name = "llm.chat"
                 /\ evs[i].name = "on_llm_error" /\ ~evs[i].raised =>
                      IF i = Len(evs)
                      THEN t.pc = "on_run_error" /\ t.error = "ModelError"
                      ELSE evs[i + 1].name = "on_run_error" /\ evs[i + 1].error = "ModelError"

\* the model failed, on_llm_error returned, and the model's exception is on its
\* way out of the run
C10_Witness ==
    \E c \in Callers :
        /\ task[c].pc = "on_run_error"
        /\ task[c].error = "ModelError"
        /\ Last(task[c].events).name = "on_llm_error"

\* the model returned a message and on_llm_end returned: the orchestrator has
\* just taken its decision on task t's output_message
Decided(t) ==
    /\ t.events # <<>>
    /\ Last(t.events).name = "on_llm_end"
    /\ ~Last(t.events).raised

\* the last model call was one of the main iteration (no tool was pinned)
InMainPass(t) == t.chat_calls # <<>> /\ Last(t.chat_calls).tool_choice = ""

\* C11: the decision on a returned AI message follows a strict priority, for
\* every combination of function_call, plugin_info and clarify.  A function
\* call means run_tool is called with the name in the message and the pass
\* produces no response, whatever plugin_info and clarify are; otherwise, in
\* the main iteration, plugin_info means a PluginStep as the last step and
\* FINISHED, whatever clarify is; otherwise clarify means CLARIFY; otherwise
\* FINISHED; and in these three cases the response text is the message content.
C11_DecisionPriority ==
    \A c \in Callers :
        LET t == task[c]
            m == t.output_message
        IN  Decided(t) =>
              IF m.function_call # NoCall
              THEN /\ t.agent_resp = NoResponse
                   /\ IF HasTool(m.function_call.name)
                      THEN t.pc = "on_tool_start" /\ t.tool = m.function_call.name
                      ELSE t.pc = "on_run_error" /\ t.error = "RuntimeError: unknown tool"
              ELSE InMainPass(t) =>
                   /\ t.pc = "on_run_end"
                   /\ t.agent_resp.text = m.content
                   /\ t.agent_resp.end_reason =
                         (IF m.plugin_info # "" THEN "FINISHED"
                          ELSE IF m.clarify THEN "CLARIFY" ELSE "FINISHED")
                   /\ (m.plugin_info # "") <=>
                         (t.steps # <<>> /\ Last(t.steps).type = "PluginStep")

\* a message with a function call, plugin info and the clarify mark was
\* answered with a tool call
C11_Witness ==
    \E c \in Callers :
        LET t == task[c] IN
        /\ Decided(t)
        /\ t.output_message.function_call # NoCall
        /\ t.output_message.plugin_info # ""
        /\ t.output_message.clarify
        /\ t.pc = "on_tool_start"

\* the main-iteration model call of task t last answered with plugin info and
\* no function call
PluginAnswer(t) ==
    /\ InMainPass(t)
    /\ t.output_message.function_call = NoCall
    /\ t.output_message.plugin_info # ""

PluginSteps(steps) == {i \in 1..Len(steps) : steps[i].type = "PluginStep"}

\* C12: when the model answers in the main iteration with plugin info and no
\* function call, the run ends in that same pass with FINISHED: the decision
\* leads straight to on_run_end, the steps hold exactly one PluginStep, as
\* their last element, whose result is the message content and which has no
\* output files; the response text is the message content; and neither the
\* model nor a tool is called after that answer.
C12_PluginAnswerEndsRun ==
    \A c \in Callers :
        LET t == task[c]
            m == t.output_message
            evs == t.events
            k == LastChat(evs)
        IN  /\ (Decided(t) /\ PluginAnswer(t)) => t.pc = "on_run_end"
            /\ (Finalized(t) /\ PluginAnswer(t)) =>
                  /\ t.agent_resp.end_reason = "FINISHED"
                  /\ t.agent_resp.text = m.content
                  /\ PluginSteps(t.agent_resp.steps) = {Len(t.agent_resp.steps)}
                  /\ Last(t.agent_resp.steps).info = m.plugin_info
                  /\ Last(t.agent_resp.steps).result = m.content
                  /\ Last(t.agent_resp.steps).output_files = <<>>
                  /\ t.curr_iter = MainCalls(t) - 1
                  /\ evs[k + 1].name = "on_llm_end"
                  /\ \A i \in (k + 2)..Len(evs) : evs[i].name = "on_run_end"

\* a run returned after a tool call followed by a plugin answer
C12_Witness ==
    \E c \in Callers :
        LET t == task[c] IN
        /\ t.pc = "done"
        /\ t.outcome = "returned"
        /\ PluginAnswer(t)
        /\ Len(t.agent_resp.steps) = 2
        /\ t.agent_resp.steps[1].type = "ToolStep"
        /\ t.agent_resp.steps[2].type = "PluginStep"

StepTypes == {"ToolStep", "PluginStep"}

\* the first model call of the main iteration was answered with a plain
\* finishing message: no function call, no plugin info, no clarify mark
PlainFirstAnswer(t) ==
    /\ InMainPass(t)
    /\ MainCalls(t) = 1
    /\ t.output_message.function_call = NoCall
    /\ t.output_message.plugin_info = ""
    /\ ~t.output_message.clarify

\* the tool calls of a run that completed
ToolCallsDone(evs) ==
    Cardinality({i \in 1..Len(evs) : evs[i].name = "on_tool_end" /\ ~evs[i].raised})

\* C13 as stated: every response holds only ToolStep and PluginStep records,
\* and a run whose first main-iteration reply is a plain finishing message
\* returns FINISHED with no steps after exactly one iteration.
C13_PlainAnswerNoSteps ==
    \A c \in Callers :
        LET t == task[c] IN
        Finalized(t) =>
           /\ \A i \in 1..Len(t.agent_resp.steps) : t.agent_resp.steps[i].type \in StepTypes
           /\ PlainFirstAnswer(t) =>
                 /\ t.agent_resp.end_reason = "FINISHED"
                 /\ t.curr_iter = 0
                 /\ t.agent_resp.steps = <<>>

\* C13, amended: every response holds only ToolStep and PluginStep records,
\* and a run whose first main-iteration reply is a plain finishing message
\* returns FINISHED after exactly one iteration with the steps of the forced
\* first-tool calls only: one ToolStep per forced call that completed, at most
\* one per first tool, and none when no first tool is configured.
C13_TerminalNotAStep ==
    \A c \in Callers :
        LET t == task[c]
            steps == t.agent_resp.steps
        IN  Finalized(t) =>
               /\ \A i \in 1..Len(steps) : steps[i].type \in StepTypes
               /\ PlainFirstAnswer(t) =>
                     /\ t.agent_resp.end_reason = "FINISHED"
                     /\ t.curr_iter = 0
                     /\ \A i \in 1..Len(steps) : steps[i].type = "ToolStep"
                     /\ Len(steps) = ToolCallsDone(t.events)
                     /\ Len(steps) <= Len(first_tools)
                     /\ first_tools = <<>> => steps = <<>>

\* a run whose forced first-tool call worked returned on a plain first answer
\* of the main iteration: one iteration, FINISHED, the forced ToolStep in steps
C13_Witness ==
    \E c \in Callers :
        LET t == task[c] IN
        /\ t.pc = "done"
        /\ t.outcome = "returned"
        /\ PlainFirstAnswer(t)
        /\ t.agent_resp.end_reason = "FINISHED"
        /\ Len(t.agent_resp.steps) = 1

\* C14: the tool calls that completed, the Function messages of the working
\* history and the ToolSteps correspond one to one, in order.  The j-th
\* Function message follows the AI message that asked for the call and carries
\* that message's tool name and the JSON text of the tool's result; the j-th
\* ToolStep carries the same JSON text as result, the same tool name, the
\* argument text of the call and the input and output files of the
\* ToolResponse.  The tool returning the number 3 gives the text "3" and no
\* files.
C14_ToolCallRecorded ==
    \A c \in Callers :
        LET t == task[c]
            h == t.chat_history
            steps == t.steps
            ToolIdx == {j \in 1..Len(steps) : steps[j].type = "ToolStep"}
        IN  /\ Cardinality({i \in 1..Len(h) : h[i].role = "Function"}) = ToolCallsDone(t.events)
            /\ ToolIdx = 1..ToolCallsDone(t.events)
            /\ \A j \in ToolIdx :
                 LET a == h[2 * j]
                     f == h[2 * j + 1]
                     ret == ToolReturn(a.function_call.name)
                 IN  /\ a.role = "AI" /\ a.function_call # NoCall
                     /\ f.role = "Function"
                     /\ f.name = a.function_call.name
                     /\ f.content = json_dumps(ret)
                     /\ steps[j].tool_name = a.function_call.name
                     /\ steps[j].tool_args = a.function_call.arguments
                     /\ steps[j].result = f.content
                     /\ steps[j].input_files =
                           sniff_and_extract_files_from_args(a.function_call.arguments)
                     /\ steps[j].output_files =
                           (IF ret.kind = "object"
                            THEN sniff_and_extract_files_from_obj(ret) ELSE <<>>)
                     /\ a.function_call.name = "add" =>
                           /\ f.content = "3"
                           /\ steps[j].result = "3"
                           /\ steps[j].input_files = <<>>
                           /\ steps[j].output_files = <<>>
            /\ (t.events # <<>> /\ Last(t.events).name = "on_tool_end"
                              /\ ~Last(t.events).raised) =>
                  /\ Last(steps) = ToolStep(t.tool, t.output_message.function_call.arguments,
                                            t.tool_resp)
                  /\ Last(h) = FunctionMessage(t.tool, t.tool_resp.json)

\* a call of add and a call of plot on a file were recorded, in this order
C14_Witness ==
    \E c \in Callers :
        LET t == task[c] IN
        /\ Len(t.steps) = 2
        /\ t.steps[1].type = "ToolStep" /\ t.steps[2].type = "ToolStep"
        /\ t.steps[1].result = "3"
        /\ t.steps[2].tool_name = "plot"
        /\ t.steps[2].input_files = <<"file-0">>
        /\ t.steps[2].output_files = <<"file-1">>
        /\ t.chat_history[5].content = "{\"img\": \"file-1\"}"

\* the last model call of task t pinned a first tool
InForcedPass(t) == t.chat_calls # <<>> /\ Last(t.chat_calls).tool_choice # ""

\* C15: when the reply to a forced first-tool call carries no function call
\* (a plain answer, a clarification request or a plugin answer), the run does
\* not fail and produces no response; the working history is what it was
\* before the forced call (the messages the model was called with, after the
\* memory), the steps are those of the tool calls completed before; and the
\* run goes on to the model call of the next first tool, or to the first one
\* of the main iteration.
C15_IgnoredDirectiveSkipped ==
    \A c \in Callers :
        LET t == task[c]
            m == t.output_message
            k == Len(t.chat_calls)
        IN  (Decided(t) /\ InForcedPass(t) /\ m.function_call = NoCall) =>
               /\ t.pc = "on_llm_start"
               /\ t.error = ""
               /\ t.agent_resp = NoResponse
               /\ get_messages(memory) \o t.chat_history = Last(t.chat_calls).messages
               /\ \A i \in 1..Len(t.chat_history) : t.chat_history[i] # m
               /\ Len(t.steps) = ToolCallsDone(t.events)
               /\ \A i \in 1..Len(t.steps) : t.steps[i].type = "ToolStep"
               /\ t.selected_tool = (IF k < Len(first_tools) THEN k + 1 ELSE 0)
               /\ t.input_messages = Last(t.chat_calls).messages

\* a plugin answer to the forced call of the only first tool was dropped and
\* the run is about to call the model in the main iteration
C15_Witness ==
    \E c \in Callers :
        LET t == task[c] IN
        /\ Decided(t)
        /\ InForcedPass(t)
        /\ t.output_message.function_call = NoCall
        /\ t.output_message.plugin_info # ""
        /\ t.selected_tool = 0
        /\ t.pc = "on_llm_start"

\* C16: forcing a first tool never makes the run fail: a failure of the tool
\* call that a forced model call triggers (unknown tool, malformed arguments,
\* a failing tool) does not reach the error path of run.
C16_ForcingNeverFails ==
    \A c \in Callers :
        LET t == task[c] IN
        (t.pc = "on_run_error" /\ t.error \in ToolFailures) => ~InForcedPass(t)

\* the constructor has run
Built == construction.pc # "called"

\* C17: construction fails when max_num_iters is not greater than 0 and when
\* some tool of first_tools is not among the tools, and succeeds otherwise,
\* without first tools included; an agent it returns has max_num_iters >= 1,
\* the first tools it was given, and each of them in its tool manager.
C17_ConstructionValidates ==
    Built =>
       /\ construction.pc = "raised" <=>
             \/ construction.max_num_iters <= 0
             \/ \E i \in 1..Len(construction.first_tools) :
                    construction.first_tools[i] \notin construction.tools
       /\ construction.pc = "raised" <=> construction.error # NoError
       /\ construction.pc = "returned" =>
             /\ max_num_iters = construction.max_num_iters
             /\ max_num_iters >= 1
             /\ first_tools = construction.first_tools
             /\ tool_manager = construction.tools
             /\ \A i \in 1..Len(first_tools) : first_tools[i] \in tool_manager

\* a construction with two first tools, both registered, returned an agent
C17_Witness ==
    /\ construction.pc = "returned"
    /\ Len(first_tools) = 2
    /\ first_tools[1] # first_tools[2]

\* C18: the exceptions of the constructor are of the documented types:
\* ValueError for a max_num_iters that is not positive, RuntimeError for a
\* tool of first_tools that is not among the tools.
C18_DocumentedErrorTypes ==
    construction.pc = "raised" =>
       construction.error.type =
          (IF construction.max_num_iters <= 0 THEN "ValueError" ELSE "RuntimeError")

\* C19: add_file_reprs_to_text returns the text unchanged when no file is
\* given, and when files are given but the text already holds a file id;
\* otherwise it returns the text followed by a line break and the files'
\* representations, one per line; the text is always a prefix of the result.
C19_FileReprsAppended ==
    (call.op = "add_file_reprs_to_text" /\ call.pc = "returned") =>
       LET text == call.text
           files == call.files
           result == call.result
           has_id == \E i \in 1..Len(text) : text[i] \in FileIds
       IN  /\ (files = <<>> \/ has_id) => result = text
           /\ (files # <<>> /\ ~has_id) =>
                 /\ Len(result) = Len(text) + 4 * Len(files)
                 /\ \A k \in 1..Len(files) :
                      /\ result[Len(text) + 4 * k - 3] = "\n"
                      /\ result[Len(text) + 4 * k - 2] = "<file>"
                      /\ result[Len(text) + 4 * k - 1] = files[k]
                      /\ result[Len(text) + 4 * k] = "</file>"
           /\ Len(result) >= Len(text)
           /\ SubSeq(result, 1, Len(text)) = text

\* two files were given with a text that holds a file id: the text came back
C19_Witness ==
    /\ call.op = "add_file_reprs_to_text"
    /\ call.pc = "returned"
    /\ Len(call.files) = 2
    /\ Len(call.text) >= 2
    /\ call.text[2] \in FileIds
    /\ call.result = call.text

\* every file id of the text is the id of a file of some step
AllAttached(text, steps) ==
    \A i \in 1..Len(text) :
        text[i] \in FileIds =>
           \E j \in 1..Len(steps) :
               \E k \in 1..Len(StepFiles(steps[j])) : StepFiles(steps[j])[k] = text[i]

\* the text that the content parts stand for: the literal parts, with the id
\* of its file in the place of each file part
RECURSIVE PutBack(_)
PutBack(parts) ==
    IF parts = <<>> THEN <<>>
    ELSE (IF parts[1].kind = "file" THEN <<parts[1].file_id>> ELSE parts[1].text)
         \o PutBack(Tail(parts))

\* C20: for every text whose file ids each match a file of some step, the
\* content parts, with the ids put back in the place of the file parts, read
\* as the text, from left to right.
C20_AnnotationRoundTrip ==
    (call.op = "annotations" /\ call.pc = "returned"
        /\ AllAttached(call.text, call.steps)) =>
       PutBack(call.result) = call.text

\* how many steps' file lists hold the file, counted per entry
TimesAttached(file, steps) ==
    Cardinality({i \in 1..Len(AllFiles(steps)) : AllFiles(steps)[i] = file})

\* the ids of the file parts, in order
FilePartIds(parts) ==
    LET file_parts == SelectSeq(parts, LAMBDA part : part.kind = "file")
    IN  [i \in 1..Len(file_parts) |-> file_parts[i].file_id]

\* the annotations of a response were computed
Annotated == call.op = "annotations" /\ call.pc = "returned"

\* C21: when a file id occurs more than once in the text, every occurrence
\* gives its own id segment at its own place and the text between and after
\* the occurrences is kept once: with every id of the text attached to one
\* step, once, the file parts are the ids of the text in order, no literal
\* part holds a file id, and the parts read back as the text.
C21_RepeatedIdsByPosition ==
    (Annotated /\ \A i \in 1..Len(call.text) :
                     call.text[i] \in FileIds => TimesAttached(call.text[i], call.steps) = 1) =>
       /\ FilePartIds(call.result) = extract_file_ids(call.text)
       /\ \A k \in 1..Len(call.result) :
            \A i \in 1..Len(call.result[k].text) : call.result[k].text[i] \notin FileIds
       /\ PutBack(call.result) = call.text

\* C22: the file ids of the text correspond one to one to the file parts, for
\* every assignment of files to steps: with pairwise different ids in the
\* text, each the id of a file of some step, every id gives exactly one file
\* part, also when its file is in several steps or twice in one step.
C22_OnePartPerId ==
    (Annotated /\ AllAttached(call.text, call.steps)
               /\ \A i, j \in 1..Len(call.text) :
                     (i # j /\ call.text[i] \in FileIds) => call.text[i] # call.text[j]) =>
       FilePartIds(call.result) = extract_file_ids(call.text)

\* the positions of the llm.chat entries of an event log, in a set
ChatEvents(evs) == {i \in 1..Len(evs) : evs[i].name = "llm.chat"}

\* the position in the event log of the first model call of the main
\* iteration (beyond the end of the log if there is none yet): the j-th
\* llm.chat entry is the j-th element of chat_calls
FirstMainChat(t) ==
    LET evs == t.events
        IsMain(i) ==
            t.chat_calls[Cardinality({j \in ChatEvents(evs) : j <= i})].tool_choice = ""
        S == {i \in ChatEvents(evs) : IsMain(i)}
    IN  IF S = {} THEN Len(evs) + 1 ELSE CHOOSE i \in S : \A j \in S : i <= j

\* the passes of the main iteration that ended without a terminal signal:
\* those whose tool call completed
MainPassesDone(t) ==
    Cardinality({i \in 1..Len(t.events) :
                   /\ i > FirstMainChat(t)
                   /\ t.events[i].name = "on_tool_end"
                   /\ ~t.events[i].raised})

\* C23: the loop ends the moment a terminal signal is obtained.  Once a run
\* has its response, the steps and the working history are those of the
\* response, the only event after the one that gave the signal (on_llm_end
\* for FINISHED and CLARIFY, the on_tool_end of the last pass for STOPPED) is
\* on_run_end, and the iteration index is the number of passes before the
\* terminal one.  At every point of a run the index is the number of
\* main-iteration passes that ended without a terminal signal: each such pass
\* advances it by exactly 1.
C23_LoopEndsAtTerminal ==
    \A c \in Callers :
        LET t == task[c]
            evs == t.events
            n == IF t.pc = "done" THEN Len(evs) - 1 ELSE Len(evs)
        IN  /\ t.curr_iter = MainPassesDone(t)
            /\ Finalized(t) =>
                  /\ t.steps = t.agent_resp.steps
                  /\ t.chat_history = t.agent_resp.chat_history
                  /\ t.pc = "done" => Last(evs).name = "on_run_end"
                  /\ evs[n].name = (IF t.agent_resp.end_reason = "STOPPED"
                                      THEN "on_tool_end" ELSE "on_llm_end")
                  /\ t.curr_iter = (IF t.agent_resp.end_reason = "STOPPED"
                                      THEN MainCalls(t) ELSE MainCalls(t) - 1)

\* a run of two passes returned: a tool call, then a clarification request
C23_Witness ==
    \E c \in Callers :
        LET t == task[c] IN
        /\ t.pc = "done"
        /\ t.outcome = "returned"
        /\ t.agent_resp.end_reason = "CLARIFY"
        /\ MainCalls(t) = 2
        /\ t.curr_iter = 1

\* C24: the model calls of a run start with one call per first tool, in the
\* configured order: the k-th call pins the k-th first tool and offers only
\* that tool; every later call pins nothing and offers all the tools.  The
\* forced calls leave the iteration index at 0, give no response (so never
\* STOPPED), and the main iteration after them makes up to max_num_iters
\* model calls.
C24_ForcedCallsPinned ==
    \A c \in Callers :
        LET t == task[c] IN
        /\ \A k \in 1..Len(t.chat_calls) :
             IF k <= Len(first_tools)
             THEN /\ t.chat_calls[k].tool_choice = first_tools[k]
                  /\ t.chat_calls[k].functions = {first_tools[k]}
             ELSE /\ t.chat_calls[k].tool_choice = ""
                  /\ t.chat_calls[k].functions = tool_manager
        /\ InForcedPass(t) => t.agent_resp = NoResponse /\ t.curr_iter = 0
        /\ MainCalls(t) <= max_num_iters
        /\ (Finalized(t) /\ t.agent_resp.end_reason = "STOPPED") =>
              Len(t.chat_calls) = Len(first_tools) + max_num_iters

\* after the forced calls of two first tools the main iteration made its
\* max_num_iters model calls and the run was stopped
C24_Witness ==
    \E c \in Callers :
        LET t == task[c] IN
        /\ Len(first_tools) = 2
        /\ Len(t.chat_calls) = 2 + max_num_iters
        /\ t.agent_resp.end_reason = "STOPPED"

\* s is t followed by the messages of one completed tool call: the AI message
\* that asked for it and the Function message with the same tool name
ExtendsByToolCall(s, t) ==
    /\ Len(s) = Len(t) + 2
    /\ SubSeq(s, 1, Len(t)) = t
    /\ s[Len(t) + 1].role = "AI"
    /\ s[Len(t) + 1].function_call # NoCall
    /\ s[Len(t) + 2].role = "Function"
    /\ s[Len(t) + 2].name = s[Len(t) + 1].function_call.name

C26_PluginFilesFromHuman ==
    \A c \in Callers :
        LET t == task[c]
            h == t.agent_resp.chat_history
        IN  (Finalized(t) /\ PluginAnswer(t)) =>
               /\ h[1].role = "Human"
               /\ Last(t.agent_resp.steps).input_files =
                     sniff_and_extract_files_from_text(h[1].content)

\* C27: in every run_tool call on a registered tool, on_tool_start comes
\* first: the arguments are parsed and the tool is invoked only after it has
\* returned.  It is then followed by exactly one of on_tool_error (the parse
\* failed, or the tool raised) and on_tool_end (the tool returned, and the
\* ToolResponse is built); the two are dispatched nowhere else, so never both
\* for one call.
C27_ToolEventOrder ==
    \A c \in Callers :
        LET t == task[c]
            evs == t.events
        IN  /\ \A i \in 1..Len(evs) :
                 /\ (evs[i].name = "on_tool_start" /\ ~evs[i].raised) =>
                      IF i = Len(evs)
                      THEN \/ t.pc = "tool"
                           \/ t.pc = "on_tool_error" /\ t.error \in ArgumentErrors
                      ELSE \/ evs[i + 1].name = "tool"
                           \/ /\ evs[i + 1].name = "on_tool_error"
                              /\ evs[i + 1].error \in ArgumentErrors
                 /\ evs[i].name = "tool" =>
                      /\ i > 1 /\ evs[i - 1].name = "on_tool_start" /\ ~evs[i - 1].raised
                      /\ LET after == IF evs[i].raised THEN "on_tool_error" ELSE "on_tool_end"
                         IN  IF i = Len(evs) THEN t.pc = after
                             ELSE evs[i + 1].name = after
                 /\ evs[i].name = "on_tool_end" =>
                      i > 1 /\ evs[i - 1].name = "tool" /\ ~evs[i - 1].raised
                 /\ evs[i].name = "on_tool_error" =>
                      /\ i > 1
                      /\ \/ evs[i - 1].name = "tool" /\ evs[i - 1].raised
                         \/ /\ evs[i - 1].name = "on_tool_start" /\ ~evs[i - 1].raised
                            /\ evs[i].error \in ArgumentErrors
            /\ t.pc = "on_tool_end" =>
                  t.tool_resp = ToolResponse(t.output_message.function_call.arguments,
                                             ToolReturn(t.tool))
            /\ t.pc \in {"on_tool_start", "tool", "on_tool_end", "on_tool_error"} =>
                  HasTool(t.tool)

\* a tool returned and on_tool_end was dispatched after on_tool_start and the
\* invocation
C27_Witness ==
    \E c \in Callers :
        LET evs == task[c].events IN
        /\ Len(evs) >= 3
        /\ Last(evs).name = "on_tool_end"
        /\ evs[Len(evs) - 1].name = "tool"
        /\ evs[Len(evs) - 2].name = "on_tool_start"

\* the step is a call of run by task c that is rejected as re-entrant
Rejected(c) ==
    /\ task[c].pc \in {"idle", "done"}
    /\ task'[c] # task[c]
    /\ task'[c].pc = "done"
    /\ task'[c].error = ReentrancyError

\* C28: a call of run that is rejected as re-entrant has no effect on the
\* agent: it dispatches no callback, it leaves the flag set, the memory and
\* the run in flight as they are, and only raises to its caller.
C28_RejectedCallNoEffect ==
    [][\A c \in Callers :
          Rejected(c) =>
             /\ is_running /\ is_running'
             /\ memory' = memory
             /\ \A d \in Callers \ {c} : task'[d] = task[d]
             /\ task'[c].events = <<>>
             /\ task'[c].chat_calls = <<>>
             /\ task'[c].outcome = "raised"
             /\ UNCHANGED <<tool_manager, max_num_iters, first_tools>>]_vars

\* a call was rejected while a run was in flight, and that run has returned
\* its response since
C28_Witness ==
    \E c, d \in Callers :
        /\ task[d].called_during_run
        /\ task[d].error = ReentrancyError
        /\ task[c].pc = "done"
        /\ task[c].outcome = "returned"
        /\ task[c].agent_resp.end_reason = "FINISHED"

\* the errors of the validity checks of _take_next_steps and _finalize_run
HistoryErrors ==
    {"ValueError: chat_history should not be empty.",
     "ValueError: The last element in chat_history should not be an AIMessage object.",
     "ValueError: The chat history is incomplete or invalid."}

\* C29: the validity checks of the orchestrator never fail in a run: no
\* exception of these checks is ever in flight or seen by a callback; when
\* _take_next_steps goes on to call the model the working history is not
\* empty and does not end with an AI message; and the history of every
\* response other than STOPPED has at least two messages, the first a Human
\* and the last an AI message.
C29_ValidityChecksPass ==
    \A c \in Callers :
        LET t == task[c] IN
        /\ t.error \notin HistoryErrors
        /\ \A i \in 1..Len(t.events) : t.events[i].error \notin HistoryErrors
        /\ t.pc \in {"on_llm_start", "llm.chat"} =>
              /\ t.chat_history # <<>>
              /\ Last(t.chat_history).role # "AI"
        /\ Finalized(t) =>
              /\ t.agent_resp.chat_history # <<>>
              /\ t.agent_resp.end_reason # "STOPPED" =>
                    HistoryComplete(t.agent_resp.chat_history)

\* the second pass of the main iteration is about to call the model: the
\* history ends with the Function message of the first pass
C29_Witness ==
    \E c \in Callers :
        LET t == task[c] IN
        /\ t.pc = "on_llm_start"
        /\ t.curr_iter = 1
        /\ Last(t.chat_history).role = "Function"

\* C30: a run ends with STOPPED only after exactly max_num_iters passes of
\* the main iteration that each completed a tool call.  A STOPPED response
\* holds no PluginStep: its steps are ToolSteps, one per completed tool call
\* of the run, max_num_iters of them from the main iteration and the others
\* from forced first-tool calls that worked; its history is the Human
\* message followed by an AI and a Function message per step, so it ends
\* with a Function message.
C30_StoppedAfterToolCalls ==
    \A c \in Callers :
        LET t == task[c]
            r == t.agent_resp
            forced == Len(r.steps) - max_num_iters
        IN  (Finalized(t) /\ r.end_reason = "STOPPED") =>
               /\ PluginSteps(r.steps) = {}
               /\ \A i \in 1..Len(r.steps) : r.steps[i].type = "ToolStep"
               /\ MainCalls(t) = max_num_iters
               /\ MainPassesDone(t) = max_num_iters
               /\ Len(r.steps) = ToolCallsDone(t.events)
               /\ forced \in 0..Len(first_tools)
               /\ forced = ToolCallsDone(t.events) - MainPassesDone(t)
               /\ Len(r.chat_history) = 1 + 2 * Len(r.steps)
               /\ r.chat_history[1].role = "Human"
               /\ \A i \in 1..Len(r.steps) :
                     /\ r.chat_history[2 * i].role = "AI"
                     /\ r.chat_history[2 * i + 1].role = "Function"
                     /\ r.chat_history[2 * i + 1].name = r.steps[i].tool_name
               /\ Last(r.chat_history).role = "Function"

\* a run with a forced call that worked returned STOPPED after two passes of
\* the main iteration
C30_Witness ==
    \E c \in Callers :
        LET t == task[c] IN
        /\ t.pc = "done"
        /\ t.outcome = "returned"
        /\ t.agent_resp.end_reason = "STOPPED"
        /\ max_num_iters = 2
        /\ Len(t.agent_resp.steps) = 3

\* the ToolSteps of a list of steps, in order
ToolSteps(steps) == SelectSeq(steps, LAMBDA s : s.type = "ToolStep")

\* the tool calls a run started
ToolCallsStarted(evs) ==
    Cardinality({i \in 1..Len(evs) : evs[i].name = "on_tool_start"})

\* C31: the chat history of every response is one Human message, then, per
\* recorded ToolStep and in the order of the ToolSteps, an AI message with a
\* function call and the Function message of that call, then one final AI
\* message if and only if the end reason is not STOPPED.  Every tool call
\* that completed during the run is recorded as exactly one ToolStep, and
\* each pass calls at most one tool.
C31_ChatHistoryShape ==
    \A c \in Callers :
        LET t == task[c]
            r == t.agent_resp
            h == r.chat_history
            ts == ToolSteps(r.steps)
            k == Len(ts)
        IN  Finalized(t) =>
               /\ Len(h) = 1 + 2 * k + (IF r.end_reason = "STOPPED" THEN 0 ELSE 1)
               /\ h[1].role = "Human"
               /\ \A i \in 1..k :
                     /\ h[2 * i].role = "AI"
                     /\ h[2 * i].function_call # NoCall
                     /\ h[2 * i].function_call.name = ts[i].tool_name
                     /\ h[2 * i].function_call.arguments = ts[i].tool_args
                     /\ h[2 * i + 1].role = "Function"
                     /\ h[2 * i + 1].name = ts[i].tool_name
                     /\ h[2 * i + 1].content = ts[i].result
               /\ r.end_reason # "STOPPED" =>
                     /\ Last(h).role = "AI"
                     /\ Last(h).function_call = NoCall
               /\ k = ToolCallsDone(t.events)
               /\ ToolCallsStarted(t.events) <= Len(t.chat_calls)

\* a run with a forced call that worked and a tool call in the main
\* iteration returned a final answer
C31_Witness ==
    \E c \in Callers :
        LET t == task[c] IN
        /\ t.pc = "done"
        /\ t.outcome = "returned"
        /\ t.agent_resp.end_reason = "FINISHED"
        /\ first_tools # <<>>
        /\ Len(ToolSteps(t.agent_resp.steps)) = 2
        /\ Len(t.agent_resp.chat_history) = 6

\* a sequence of [Human, AI] pairs
HumanAIPairs(ms) ==
    /\ Len(ms) % 2 = 0
    /\ \A i \in 1..Len(ms) : ms[i].role = (IF i % 2 = 1 THEN "Human" ELSE "AI")

\* C32: from an empty memory, after any runs and resets the persisted
\* messages are [Human, AI] pairs (an even count, Human and AI alternating,
\* no Function message), and each accepted run adds one pair if it returned
\* a response other than STOPPED and nothing otherwise, so that the count is
\* twice the number of successful runs other than STOPPED since the last
\* reset.
C32_MemoryPairs ==
    /\ HumanAIPairs(memory)
    /\ \A c \in Callers :
          LET t == task[c] IN
          (t.pc = "done" /\ ~t.called_during_run /\ t.error # ReentrancyError) =>
              memory = IF t.outcome = "returned" /\ t.agent_resp.end_reason # "STOPPED"
                       THEN t.memory_before \o Committed(t.agent_resp.chat_history)
                       ELSE t.memory_before

\* the entries that may come right after entry e in the event log of a run
Follows(e) ==
    IF e.name = "on_run_start"
    THEN IF e.raised THEN {} ELSE {"on_llm_start"}
    ELSE IF e.name = "on_llm_start"
    THEN IF e.raised THEN {"on_run_error"} ELSE {"llm.chat"}
    ELSE IF e.name = "llm.chat"
    THEN IF e.raised THEN {"on_llm_error"} ELSE {"on_llm_end"}
    ELSE IF e.name = "on_llm_end"
    THEN IF e.raised THEN {"on_run_error"}
         ELSE {"on_tool_start", "on_llm_start", "on_run_end", "on_run_error"}
    ELSE IF e.name = "on_tool_start"
    THEN IF e.raised THEN {"on_run_error"} ELSE {"tool", "on_tool_error"}
    ELSE IF e.name = "tool"
    THEN IF e.raised THEN {"on_tool_error"} ELSE {"on_tool_end"}
    ELSE IF e.name = "on_tool_end"
    THEN IF e.raised THEN {"on_run_error"} ELSE {"on_llm_start", "on_run_end"}
    ELSE IF e.name \in {"on_llm_error", "on_tool_error"}
    THEN {"on_run_error"}
    ELSE {}

\* the failures of a model call and of a tool call
CallFailures == {"ModelError", "ToolError"} \cup ArgumentErrors

RECURSIVE IsSubsequence(_, _)
\* whether the elements of a occur in b in the same order
IsSubsequence(a, b) ==
    IF a = <<>> THEN TRUE
    ELSE IF b = <<>> THEN FALSE
    ELSE IF Head(a) = Head(b) THEN IsSubsequence(Tail(a), Tail(b))
    ELSE IsSubsequence(a, Tail(b))

\* the pcs of a task inside run_tool
InRunTool == {"on_tool_start", "tool", "on_tool_end", "on_tool_error"}

\* C34: every ToolStep of the forced first-tools phase names the first tool
\* it was forced for.  The tool looked up and invoked in the pass of the
\* i-th first tool is that first tool, and in a response the ToolSteps that
\* precede those of the main iteration name first tools, in the configured
\* order, whatever tool the reply of the model names.
C34_ForcedStepNamesFirstTool ==
    \A c \in Callers :
        LET t == task[c]
            ts == ToolSteps(t.agent_resp.steps)
            forced == Len(ts) - MainPassesDone(t)
        IN  /\ (t.selected_tool > 0 /\ t.pc \in InRunTool) =>
                  t.tool = first_tools[t.selected_tool]
            /\ Finalized(t) =>
                  IsSubsequence([i \in 1..forced |-> ts[i].tool_name], first_tools)

\* the tools a run invoked
ToolInvocations(evs) == Cardinality({i \in 1..Len(evs) : evs[i].name = "tool"})

\* the most model calls and tool calls one run makes
CallBudget == Len(first_tools) + max_num_iters

\* C35: every accepted run terminates, returning a response or raising,
\* when each model call, tool call and callback it awaits returns or raises;
\* and whatever the model answers, a run makes at most
\* Len(first_tools) + max_num_iters model calls and as many tool calls.
C35_RunTerminates ==
    /\ [](\A c \in Callers :
            /\ Len(task[c].chat_calls) <= CallBudget
            /\ ToolCallsStarted(task[c].events) <= CallBudget
            /\ ToolInvocations(task[c].events) <= CallBudget)
    /\ \A c \in Callers : InRun(c) ~> (task[c].pc = "done")

\* the model answered every call with a function call: the run ended after
\* Len(first_tools) + max_num_iters model calls and as many tool calls
C35_Witness ==
    \E c \in Callers :
        LET t == task[c] IN
        /\ t.pc = "done"
        /\ first_tools # <<>>
        /\ Len(t.chat_calls) = CallBudget
        /\ ToolInvocations(t.events) = CallBudget

\* C36: the first tools stay registered.  After any load_tool and
\* unload_tool calls every configured first tool is in the registry, and a
\* forced call that the model honours (its reply names the forced tool)
\* never fails with the unknown-tool error.
C36_FirstToolsResolvable ==
    /\ \A i \in 1..Len(first_tools) : HasTool(first_tools[i])
    /\ \A c \in Callers :
          LET t == task[c] IN
          (/\ t.selected_tool > 0
           /\ t.pc = "on_run_error"
           /\ t.output_message.function_call # NoCall
           /\ t.output_message.function_call.name = first_tools[t.selected_tool]) =>
              t.error # "RuntimeError: unknown tool"

====
